---- MODULE Spec2Model ----
(***************************************************************************)
(* Model of the repository synchronisation of xdeb-install                 *)
(* (src/pkg/sync.go): SyncRepositories, the goroutines it starts, the      *)
(* fetch functions pullPackagesFile / pullAptRepository /                  *)
(* pullCustomRepository, and the helpers DownloadFile / writeFile.         *)
(*                                                                         *)
(* Names that may hold a '/' (distributions, components) and file paths    *)
(* are sequences of path segments; a file holds a sequence of blocks.       *)
(***************************************************************************)
EXTENDS Integers, Sequences, FiniteSets, TLC

\* ------------------------------------------------------------------ bounds
MaxProviders == 2      \* providers of a manifest
MaxFilter == 2         \* names given as providerNames
MaxChunks == 4         \* pieces a served Packages index is put together from

\* -------------------------------------------------------- program constants
StatusOK == 200        \* the only status the code treats as a success

Nil == [kind |-> "nil"]      \* Go's nil (error or pointer)
None == [kind |-> "none"]    \* SyncRepositories has not returned

\* --------------------------------------------------------------- the inputs
ManifestNames == <<"debian", "ubuntu", "mx">>
ResolveNames == {"debian", "ubuntu", "mx"}
UnknownNames == {"arch", "void"}
NonSuccess == {404}
FinalSuffixes == {"", ".xz", ".gz"}
Root == <<"root">>

\* type PackageListsProvider
PackageListsProvider(name, custom, dists, comps) ==
    [Name |-> name, Custom |-> custom, Url |-> <<"http:", name>>,
     Architecture |-> "amd64", Components |-> comps, Distributions |-> dists]

\* the providers a manifest is made of: APT-style with two jobs, custom with
\* one job, one without distributions, one without components
Shapes(name) ==
    {PackageListsProvider(name, FALSE, << <<"stable">>, <<"testing">> >>, << <<"main">> >>),
     PackageListsProvider(name, TRUE, << <<"stable">> >>, << <<"main">> >>),
     PackageListsProvider(name, TRUE, << >>, << <<"main">> >>),
     PackageListsProvider(name, FALSE, << <<"stable">> >>, << >>)}

SeqsUpTo(S, n) == UNION {[1..m -> S] : m \in 0..n}

\* ------------------------------------------------------------ pure helpers
\* slices.Contains
Contains(s, e) == \E x \in 1..Len(s) : s[x] = e

Last(s) == s[Len(s)]

\* filepath.Join on segment sequences
Join(a, b) == a \o b

\* fmt.Sprintf("%s<suffix>", path): the suffix lands on the last segment
WithSuffix(p, suffix) == [p EXCEPT ![Len(p)] = @ \o suffix]

\* filepath.Base
Base(p) == Last(p)

\* lines 209-213
availableProviderNames(l) == [x \in 1..Len(l.Providers) |-> l.Providers[x].Name]

\* ValidateProviderNames reporting the last unknown name instead of the first
ValidateLastUnknown(l, names) ==
    LET bad == {x \in 1..Len(names) : ~Contains(availableProviderNames(l), names[x])}
        last == CHOOSE x \in bad : \A y \in bad : x >= y
    IN IF bad = {} THEN Nil
       ELSE [kind |-> "unsupported", name |-> names[last],
             valid |-> availableProviderNames(l)]

\* lines 215-219: the error of the first name, in request order, that the
\* manifest does not hold; Nil when every name is known
ValidateProviderNames(l, names) ==
    LET bad == {x \in 1..Len(names) : ~Contains(availableProviderNames(l), names[x])}
        first == CHOOSE x \in bad : \A y \in bad : x <= y
    IN IF bad = {} THEN Nil
       ELSE [kind |-> "unsupported", name |-> names[first],
             valid |-> availableProviderNames(l)]

\* SelectProviders looping over the requested names instead of the manifest
SelectInRequestOrder(l, names) ==
    IF Len(names) > 0
    THEN [x \in 1..Len(names) |->
            l.Providers[CHOOSE m \in 1..Len(l.Providers) : l.Providers[m].Name = names[x]]]
    ELSE l.Providers

\* lines 221-231
SelectProviders(l, names) ==
    IF Len(names) > 0
    THEN SelectSeq(l.Providers, LAMBDA p : Contains(names, p.Name))
    ELSE l.Providers

\* CountOperations counting the jobs of the last provider only
CountLastProvider(ps) ==
    IF ps = << >> THEN 0
    ELSE Len(Last(ps).Distributions) * Len(Last(ps).Components)

\* lines 233-241
RECURSIVE CountOperations(_)
CountOperations(ps) ==
    IF ps = << >> THEN 0
    ELSE Len(Head(ps).Distributions) * Len(Head(ps).Components)
         + CountOperations(Tail(ps))

\* ------------------------------------------------------- payloads and files
\* type XdebPackageDefinition, as parsePackagesFile fills it for record x
Package(prefix, x) ==
    [Name |-> "pkg", Version |-> x, Url |-> Join(prefix, <<"pool", "pkg.deb">>),
     Sha256 |-> "sum"]

\* the results parsePackagesFile can return for an index served under prefix:
\* pullAptRepository tells an index without records from one with records
IndexSizes == {0, 1}
Definitions(prefix) ==
    {[Xdeb |-> [x \in 1..n |-> Package(prefix, x)]] : n \in IndexSizes}

\* yaml.Marshal of an XdebProviderDefinition
Marshal(definition) == [xdeb |-> definition.Xdeb]

\* compressData: a zstd frame, its header and the block holding the input
compressData(data) == <<"zstd", data>>

\* the bodies a custom provider serves
Bodies == {"raw"}

\* writeFile that neither compresses nor adds the suffix, whatever compress
\* says: the data goes to the file as one block
writeFileUncompressed(path, data, compress) == [fullPath |-> path, fileData |-> <<data>>]

\* writeFile, lines 355-374: the bytes and the path it is about to write
writeFilePlan(path, data, compress) ==
    IF compress
    THEN [fullPath |-> WithSuffix(path, ".zst"), fileData |-> compressData(data)]
    ELSE [fullPath |-> path, fileData |-> data]

\* pullPackagesFile, lines 79-82, 91, 99: the three candidate URLs
CandidateSuffix == <<"", ".xz", ".gz">>
PackagesUrl(p, d, c, stage) ==
    Join(p.Url, <<"dists">> \o d \o c
                \o <<"binary-" \o p.Architecture, "Packages" \o CandidateSuffix[stage]>>)

\* pullCustomRepository, line 176
CustomUrl(p, d, c) == Join(p.Url, d \o c)

\* lines 119-137: the reader chosen from the final request path
ReaderFor(final) ==
    IF final = ".xz" THEN "xz" ELSE IF final = ".gz" THEN "gzip" ELSE "plain"

\* pullAptRepository, line 158
AptFilePath(directory, d, c) == Join(directory, d \o WithSuffix(c, ".yaml"))

\* DownloadFile, line 421, called with path = filepath.Join(directory, dist)
CustomFilePath(directory, d, url) == Join(Join(directory, d), <<Base(url)>>)

\* -------------------------------------------------------- parsePackagesFile
\* A text is a sequence of tokens: a field key ("Package", ...), one of the
\* characters ":", " ", "\n", "/", or a letter of a value. "" is << >>.

\* strings.HasPrefix
HasPrefix(str, prefix) ==
    Len(str) >= Len(prefix) /\ SubSeq(str, 1, Len(prefix)) = prefix

\* strings.Index: where sep first starts in str, 0 when it does not occur
Index(str, sep) ==
    LET at == {x \in 1..(Len(str) - Len(sep) + 1) :
                  SubSeq(str, x, x + Len(sep) - 1) = sep}
    IN IF at = {} THEN 0 ELSE CHOOSE x \in at : \A y \in at : x <= y

\* strings.Split for a non-empty sep: the pieces between the occurrences of
\* sep, found from left to right without overlap
RECURSIVE Split(_, _)
Split(str, sep) ==
    IF Index(str, sep) = 0 THEN <<str>>
    ELSE <<SubSeq(str, 1, Index(str, sep) - 1)>>
         \o Split(SubSeq(str, Index(str, sep) + Len(sep), Len(str)), sep)

\* a Go run-time panic (index out of range)
Panic == [kind |-> "panic"]

\* the prefixes of lines 44, 49, 54, 60, without their ":"
Keys == {"Package", "Version", "Filename", "SHA256"}

\* strings.Split(line, ": ")[1], lines 45, 50, 55, 61: the index panics on a
\* line that holds no ": "
Panics(line) == Len(Split(line, <<":", " ">>)) < 2
ValueOf(line) == Split(line, <<":", " ">>)[2]

\* whether the loop over the lines of package_data (lines 43-65) panics
RecordPanics(package_data) ==
    LET lines == Split(package_data, <<"\n">>)
    IN \E x \in 1..Len(lines) :
          /\ \E key \in Keys : HasPrefix(lines[x], <<key, ":">>)
          /\ Panics(lines[x])

\* lines 43-65 for one field: the value the loop over the lines of
\* package_data leaves in the field's variable, that of the last line with
\* the prefix "<key>:", "" when there is none
Field(package_data, key) ==
    LET lines == Split(package_data, <<"\n">>)
        with == {x \in 1..Len(lines) : HasPrefix(lines[x], <<key, ":">>)}
    IN IF with = {} THEN << >>
       ELSE ValueOf(lines[CHOOSE x \in with : \A y \in with : x >= y])

\* lines 38-72: the entry of one record; url stays "" without a Filename line
XdebPackageDefinition(urlPrefix, package_data) ==
    LET lines == Split(package_data, <<"\n">>)
    IN [Name |-> Field(package_data, "Package"),
        Version |-> Field(package_data, "Version"),
        Url |-> IF \E x \in 1..Len(lines) : HasPrefix(lines[x], <<"Filename", ":">>)
                THEN urlPrefix \o <<"/">> \o Field(package_data, "Filename")
                ELSE << >>,
        Sha256 |-> Field(package_data, "SHA256")]

\* parsePackagesFile, lines 30-76
parsePackagesFile(urlPrefix, packages_file) ==
    LET packages == SelectSeq(Split(packages_file, <<"\n", "\n">>),
                              LAMBDA package_data : Len(package_data) # 0)
    IN IF \E x \in 1..Len(packages) : RecordPanics(packages[x])
       THEN Panic
       ELSE [Xdeb |-> [x \in 1..Len(packages) |->
                          XdebPackageDefinition(urlPrefix, packages[x])]]

\* the pieces a served index is put together from: a line break, a line of
\* each recognized field, a piece that holds a further ": ", and a
\* "SHA256:" that no ": " follows
Chunks ==
    {<<"\n">>,
     <<"Package", ":", " ", "a">>,
     <<"Version", ":", " ", "1">>,
     <<"Filename", ":", " ", "f">>,
     <<":", " ", "b">>,
     <<"SHA256", ":">>}

RECURSIVE Concat(_)
Concat(chunks) == IF chunks = << >> THEN << >> ELSE Head(chunks) \o Concat(Tail(chunks))

Texts == {Concat(chunks) : chunks \in SeqsUpTo(Chunks, MaxChunks)}

\* ------------------------------------------------------------------- state
VARIABLES
    lists,          \* the manifest handed to SyncRepositories
    packages_file,  \* the Packages index the servers serve (SpecParse)
    providerNames,  \* the filter handed to SyncRepositories
    pc,             \* where SyncRepositories is
    ret,            \* what SyncRepositories returned (None while running)
    providers,      \* lines 221-231: the selected providers
    operations,     \* lines 233-241: the run-wide job count
    k,              \* index in providers of the provider being processed
    next,           \* <<d, c>>: the pair the launch loops are at
    errors,         \* the current provider's channel: the queued results
    closed,         \* whether close(errors) has run
    wg,             \* the current provider's WaitGroup counter
    i,              \* the drain loop's counter
    jobs,           \* the goroutines started so far, by <<k, d, c>>
    fs,             \* the files: path -> bytes
    fs0,            \* the files as they were when the run started
    network,        \* whether any HTTP request was issued in this run
    failed          \* the goroutines whose fetch function returned an error

vars == <<lists, packages_file, providerNames, pc, ret, providers, operations, k, next,
          errors, closed, wg, i, jobs, fs, fs0, network, failed>>

input == <<lists, packages_file, providerNames, fs0>>

\* a goroutine that has not fetched anything yet. resps are the statuses its
\* requests got and reqs the URLs it requested (kept until a response is
\* accepted, or until the result is sent when none was), final the suffix of
\* the final request path of the accepted response, reader the reader chosen
\* for its body, definition what was fetched, plan what writeFile is writing,
\* err what the fetch function returned.
NewJob ==
    [pc |-> "get", reqs |-> << >>, resps |-> << >>, final |-> "", reader |-> "",
     definition |-> Nil, plan |-> Nil, err |-> Nil]

\* a goroutine whose fetch function returns err
Returned(job, err) == [job EXCEPT !.pc = "send", !.final = "", !.reader = "", !.err = err]

Provider(j) == providers[j[1]]
Dist(j) == Provider(j).Distributions[j[2]]
Comp(j) == Provider(j).Components[j[3]]
\* line 253
Directory(j) == Join(Root, <<Provider(j).Name>>)

\* the snapshot path of a (provider, distribution, component) triple
SnapshotPath(p, d, c) ==
    IF p.Custom
    THEN writeFilePlan(CustomFilePath(Join(Root, <<p.Name>>), d, CustomUrl(p, d, c)),
                       << >>, TRUE).fullPath
    ELSE writeFilePlan(AptFilePath(Join(Root, <<p.Name>>), d, c), << >>, TRUE).fullPath

ManifestPaths(l) ==
    UNION {{SnapshotPath(l.Providers[x], l.Providers[x].Distributions[d],
                         l.Providers[x].Components[c]) :
                d \in 1..Len(l.Providers[x].Distributions),
                c \in 1..Len(l.Providers[x].Components)} :
           x \in 1..Len(l.Providers)}

\* the snapshot a previous sync run left behind
OldContent == compressData([xdeb |-> <<"previous">>])

Manifests ==
    {l \in [Providers : SeqsUpTo(UNION {Shapes(ManifestNames[x]) :
                                          x \in 1..Len(ManifestNames)}, MaxProviders)] :
        \A x \in 1..Len(l.Providers) : l.Providers[x].Name = ManifestNames[x]}

InitRun ==
    /\ pc = "resolve"
    /\ ret = None
    /\ providers = << >>
    /\ operations = 0
    /\ k = 0
    /\ next = <<1, 1>>
    /\ errors = << >>
    /\ closed = FALSE
    /\ wg = 0
    /\ i = 0
    /\ jobs = << >>
    /\ network = FALSE
    /\ failed = {}

\* the files a previous run left: the snapshots of "stable", none of "testing"
PreviousFiles(l) ==
    [p \in {q \in ManifestPaths(l) : Contains(q, "stable")} |-> OldContent]

\* Spec: every manifest of up to MaxProviders providers, no filter
Init ==
    /\ lists \in Manifests
    /\ packages_file = << >>
    /\ providerNames = << >>
    /\ fs0 = PreviousFiles(lists)
    /\ fs = fs0
    /\ InitRun

\* SpecResolve: manifests whose names may repeat and come in any order (debian
\* APT-style with one job, ubuntu custom with one job, mx without
\* distributions), and every filter of up to MaxFilter names, known or unknown
ResolveProvider(name) ==
    PackageListsProvider(name, name = "ubuntu",
                         IF name = "mx" THEN << >> ELSE << <<"stable">> >>,
                         << <<"main">> >>)

InitResolve ==
    /\ lists \in [Providers : SeqsUpTo({ResolveProvider(n) : n \in ResolveNames},
                                       MaxProviders)]
    /\ packages_file = << >>
    /\ providerNames \in SeqsUpTo(ResolveNames \cup UnknownNames, MaxFilter)
    /\ fs0 = PreviousFiles(lists)
    /\ fs = fs0
    /\ InitRun

\* ----------------------------------------------------------- SyncRepositories
\* lines 209-241
Resolve ==
    /\ pc = "resolve"
    /\ IF ValidateProviderNames(lists, providerNames) # Nil
       THEN /\ ret' = ValidateProviderNames(lists, providerNames)
            /\ pc' = "returned"
            /\ UNCHANGED <<providers, operations, k>>
       ELSE /\ providers' = SelectProviders(lists, providerNames)
            /\ operations' = CountOperations(providers')
            /\ k' = 1
            /\ pc' = "provider"
            /\ ret' = ret
    /\ UNCHANGED <<input, next, errors, closed, wg, i, jobs, fs, network, failed>>

\* line 243 (loop head), 244-245, and 276
NextProvider ==
    /\ pc = "provider"
    /\ IF k <= Len(providers)
       THEN /\ errors' = << >>
            /\ closed' = FALSE
            /\ wg' = 0
            /\ next' = <<1, 1>>
            /\ pc' = "launch"
            /\ ret' = ret
       ELSE /\ ret' = Nil
            /\ pc' = "returned"
            /\ UNCHANGED <<errors, closed, wg, next>>
    /\ UNCHANGED <<input, providers, operations, k, i, jobs, fs, network, failed>>

\* Launch that leaves the loops after the first goroutine of a provider
LaunchFirstOnly ==
    /\ pc = "launch"
    /\ LET nd == Len(providers[k].Distributions)
           nc == Len(providers[k].Components)
       IN IF next = <<1, 1>> /\ nd > 0 /\ nc > 0
          THEN /\ wg' = wg + 1
               /\ jobs' = [j \in DOMAIN jobs \cup {<<k, 1, 1>>} |->
                              IF j \in DOMAIN jobs THEN jobs[j] ELSE NewJob]
               /\ next' = <<nd + 1, 1>>
               /\ pc' = pc
          ELSE /\ pc' = "wait"
               /\ UNCHANGED <<wg, jobs, next>>
    /\ UNCHANGED <<input, ret, providers, operations, k, errors, closed, i, fs, network, failed>>

\* lines 247-262: one iteration of the nested loops, or their end
Launch ==
    /\ pc = "launch"
    /\ LET nd == Len(providers[k].Distributions)
           nc == Len(providers[k].Components)
       IN IF next[1] <= nd /\ nc > 0
          THEN /\ wg' = wg + 1
               /\ jobs' = [j \in DOMAIN jobs \cup {<<k, next[1], next[2]>>} |->
                              IF j \in DOMAIN jobs THEN jobs[j] ELSE NewJob]
               /\ next' = IF next[2] < nc THEN <<next[1], next[2] + 1>>
                          ELSE <<next[1] + 1, 1>>
               /\ pc' = pc
          ELSE /\ pc' = "wait"
               /\ UNCHANGED <<wg, jobs, next>>
    /\ UNCHANGED <<input, ret, providers, operations, k, errors, closed, i, fs, network, failed>>

\* WaitClose without the wg.Wait()
CloseWithoutWait ==
    /\ pc = "wait"
    /\ closed' = TRUE
    /\ i' = 0
    /\ pc' = "drain"
    /\ UNCHANGED <<input, ret, providers, operations, k, next, errors, wg, jobs, fs,
                   network, failed>>

\* WaitClose without the close(errors)
WaitWithoutClose ==
    /\ pc = "wait"
    /\ wg = 0
    /\ closed' = FALSE
    /\ i' = 0
    /\ pc' = "drain"
    /\ UNCHANGED <<input, ret, providers, operations, k, next, errors, wg, jobs, fs,
                   network, failed>>

\* lines 264-265
WaitClose ==
    /\ pc = "wait"
    /\ wg = 0
    /\ closed' = TRUE
    /\ i' = 0
    /\ pc' = "drain"
    /\ UNCHANGED <<input, ret, providers, operations, k, next, errors, wg, jobs, fs, network, failed>>

\* what a receive from the channel yields: a queued value, or nil once the
\* channel is closed and empty
Recv == IF errors # << >> THEN Head(errors) ELSE Nil

\* DrainStep that goes on to the next result when it reads an error
DrainIgnoringErrors ==
    IF i < operations
    THEN /\ errors # << >> \/ closed
         /\ errors' = IF errors # << >> THEN Tail(errors) ELSE errors
         /\ i' = i + 1
         /\ UNCHANGED <<ret, pc, k>>
    ELSE /\ k' = k + 1
         /\ pc' = "provider"
         /\ UNCHANGED <<errors, ret, i>>

\* DrainStep whose loop stops one read early
DrainOneShort ==
    IF i < operations - 1
    THEN /\ errors # << >> \/ closed
         /\ errors' = IF errors # << >> THEN Tail(errors) ELSE errors
         /\ IF Recv # Nil
            THEN /\ ret' = Recv
                 /\ pc' = "returned"
                 /\ UNCHANGED <<i, k>>
            ELSE /\ i' = i + 1
                 /\ UNCHANGED <<ret, pc, k>>
    ELSE /\ k' = k + 1
         /\ pc' = "provider"
         /\ UNCHANGED <<errors, ret, i>>

\* DrainStep that empties the channel before it returns the first error
DrainAllThenReturn ==
    IF i < operations
    THEN /\ errors # << >> \/ closed
         /\ IF Recv # Nil
            THEN /\ ret' = Recv
                 /\ errors' = << >>
                 /\ pc' = "returned"
                 /\ UNCHANGED <<i, k>>
            ELSE /\ errors' = IF errors # << >> THEN Tail(errors) ELSE errors
                 /\ i' = i + 1
                 /\ UNCHANGED <<ret, pc, k>>
    ELSE /\ k' = k + 1
         /\ pc' = "provider"
         /\ UNCHANGED <<errors, ret, i>>

\* lines 267-273: one iteration of the drain loop, or its end (line 274)
DrainStep ==
    IF i < operations
    THEN /\ errors # << >> \/ closed
         /\ errors' = IF errors # << >> THEN Tail(errors) ELSE errors
         /\ IF Recv # Nil
            THEN /\ ret' = Recv
                 /\ pc' = "returned"
                 /\ UNCHANGED <<i, k>>
            ELSE /\ i' = i + 1
                 /\ UNCHANGED <<ret, pc, k>>
    ELSE /\ k' = k + 1
         /\ pc' = "provider"
         /\ UNCHANGED <<errors, ret, i>>

Drain ==
    /\ pc = "drain"
    /\ DrainStep
    /\ UNCHANGED <<input, providers, operations, next, closed, wg, jobs, fs, network, failed>>

\* ------------------------------------------------------------ the goroutines
Running(st) == {j \in DOMAIN jobs : jobs[j].pc = st}

\* an error value; job is the goroutine that produced it
Error(kind, j) == [kind |-> kind, job |-> j]

\* goroutine j moves to r; a fetch function that returns an error is recorded
SetJob(j, r) ==
    /\ jobs' = [jobs EXCEPT ![j] = r]
    /\ failed' = IF r.pc = "send" /\ r.err # Nil THEN failed \cup {j} ELSE failed

\* AfterPull treating the exhausted fallback as an error
AfterPullNotFoundFails(j, job, definition) ==
    IF definition = Nil THEN Returned(job, Error("notfound", j))
    ELSE IF Len(definition.Xdeb) > 0
    THEN [job EXCEPT !.pc = "create", !.final = "", !.reader = "", !.reqs = << >>, !.resps = << >>,
            !.definition = definition,
            !.plan = writeFilePlan(AptFilePath(Directory(j), Dist(j), Comp(j)),
                                   Marshal(definition), TRUE)]
    ELSE Returned([job EXCEPT !.definition = definition, !.reqs = << >>,
                              !.resps = << >>], Nil)

\* AfterPull without the len(definition.Xdeb) > 0 test
AfterPullAlwaysPersists(j, job, definition) ==
    IF definition # Nil
    THEN [job EXCEPT !.pc = "create", !.final = "", !.reader = "", !.reqs = << >>, !.resps = << >>,
            !.definition = definition,
            !.plan = writeFilePlan(AptFilePath(Directory(j), Dist(j), Comp(j)),
                                   Marshal(definition), TRUE)]
    ELSE Returned(job, Nil)

\* pullAptRepository, lines 149-170, once pullPackagesFile returned definition
\* and no error: persist when there is at least one entry, else return nil
AfterPull(j, job, definition) ==
    IF definition # Nil /\ Len(definition.Xdeb) > 0
    THEN [job EXCEPT !.pc = "create", !.final = "", !.reader = "", !.reqs = << >>, !.resps = << >>,
            !.definition = definition,
            !.plan = writeFilePlan(AptFilePath(Directory(j), Dist(j), Comp(j)),
                                   Marshal(definition), TRUE)]
    ELSE IF definition # Nil
    THEN Returned([job EXCEPT !.definition = definition, !.reqs = << >>,
                              !.resps = << >>], Nil)
    ELSE Returned(job, Nil)

\* AptGet that takes a failed request for a non-success status
AptGetTransportIsNotFound(j) ==
    /\ j \in Running("get")
    /\ ~Provider(j).Custom
    /\ network' = TRUE
    /\ LET url == PackagesUrl(Provider(j), Dist(j), Comp(j), Len(jobs[j].reqs) + 1)
           requested == [jobs[j] EXCEPT !.reqs = Append(@, url)]
       IN \/ SetJob(j, IF Len(requested.reqs) < Len(CandidateSuffix)
                        THEN [requested EXCEPT !.resps = Append(@, 404)]
                        ELSE AfterPull(j, requested, Nil))
          \/ \E status \in NonSuccess :
                LET job == [requested EXCEPT !.resps = Append(@, status)]
                IN SetJob(j, IF Len(job.resps) < Len(CandidateSuffix)
                             THEN job
                             ELSE AfterPull(j, job, Nil))
          \/ \E final \in FinalSuffixes :
                SetJob(j, [requested EXCEPT !.resps = Append(@, StatusOK),
                                            !.final = final,
                                            !.reader = ReaderFor(final),
                                            !.pc = "read"])
    /\ UNCHANGED <<input, pc, ret, providers, operations, k, next, errors, closed,
                   wg, i, fs>>

\* AptGet that goes on to the next candidate after a success, and reads the
\* response of the last one
AptGetNoShortCircuit(j) ==
    /\ j \in Running("get")
    /\ ~Provider(j).Custom
    /\ network' = TRUE
    /\ LET url == PackagesUrl(Provider(j), Dist(j), Comp(j), Len(jobs[j].reqs) + 1)
           requested == [jobs[j] EXCEPT !.reqs = Append(@, url)]
       IN \/ SetJob(j, Returned(requested, Error("transport", j)))
          \/ \E status \in NonSuccess :
                LET job == [requested EXCEPT !.resps = Append(@, status)]
                IN SetJob(j, IF Len(job.resps) < Len(CandidateSuffix)
                             THEN job
                             ELSE AfterPull(j, job, Nil))
          \/ \E final \in FinalSuffixes :
                LET job == [requested EXCEPT !.resps = Append(@, StatusOK)]
                IN SetJob(j, IF Len(job.resps) < Len(CandidateSuffix)
                             THEN job
                             ELSE [job EXCEPT !.final = final,
                                              !.reader = ReaderFor(final),
                                              !.pc = "read"])
    /\ UNCHANGED <<input, pc, ret, providers, operations, k, next, errors, closed,
                   wg, i, fs>>

\* AptGet choosing the reader from the suffix of the URL it requested
AptGetReaderOfCandidate(j) ==
    /\ j \in Running("get")
    /\ ~Provider(j).Custom
    /\ network' = TRUE
    /\ LET url == PackagesUrl(Provider(j), Dist(j), Comp(j), Len(jobs[j].reqs) + 1)
           requested == [jobs[j] EXCEPT !.reqs = Append(@, url)]
       IN \/ SetJob(j, Returned(requested, Error("transport", j)))
          \/ \E status \in NonSuccess :
                LET job == [requested EXCEPT !.resps = Append(@, status)]
                IN SetJob(j, IF Len(job.resps) < Len(CandidateSuffix)
                             THEN job
                             ELSE AfterPull(j, job, Nil))
          \/ \E final \in FinalSuffixes :
                SetJob(j, [requested EXCEPT
                             !.resps = Append(@, StatusOK),
                             !.final = final,
                             !.reader = ReaderFor(CandidateSuffix[Len(requested.reqs)]),
                             !.pc = "read"])
    /\ UNCHANGED <<input, pc, ret, providers, operations, k, next, errors, closed,
                   wg, i, fs>>

\* pullPackagesFile, lines 84-118: one http.Get of an APT-style job and the
\* branches on its outcome; for a success, the reader chosen from the final
\* request path (lines 119-137)
AptGet(j) ==
    /\ j \in Running("get")
    /\ ~Provider(j).Custom
    /\ network' = TRUE
    /\ LET url == PackagesUrl(Provider(j), Dist(j), Comp(j), Len(jobs[j].reqs) + 1)
           requested == [jobs[j] EXCEPT !.reqs = Append(@, url)]
       IN \/ SetJob(j, Returned(requested, Error("transport", j)))
          \/ \E status \in NonSuccess :
                LET job == [requested EXCEPT !.resps = Append(@, status)]
                IN SetJob(j, IF Len(job.resps) < Len(CandidateSuffix)
                             THEN job
                             ELSE AfterPull(j, job, Nil))
          \/ \E final \in FinalSuffixes :
                SetJob(j, [requested EXCEPT !.resps = Append(@, StatusOK),
                                            !.final = final,
                                            !.reader = ReaderFor(final),
                                            !.pc = "read"])
    /\ UNCHANGED <<input, pc, ret, providers, operations, k, next, errors, closed,
                   wg, i, fs>>

\* pullPackagesFile, lines 119-145, and pullAptRepository, lines 151-168:
\* set up the reader (xz.NewReader and gzip.NewReader can fail, the plain
\* reader cannot), read the body
\* (io.ReadAll can fail), parse it
AptRead(j) ==
    /\ j \in Running("read")
    /\ ~Provider(j).Custom
    /\ \/ /\ jobs[j].reader # "plain"
          /\ SetJob(j, Returned([jobs[j] EXCEPT !.reqs = << >>, !.resps = << >>],
                                Error("decode", j)))
       \/ SetJob(j, Returned([jobs[j] EXCEPT !.reqs = << >>, !.resps = << >>],
                             Error("read", j)))
       \/ \E definition \in Definitions(Provider(j).Url) :
             SetJob(j, AfterPull(j, jobs[j], definition))
    /\ UNCHANGED <<input, pc, ret, providers, operations, k, next, errors, closed,
                   wg, i, fs, network>>

\* CustomGet that takes a non-success status for nothing to do, as the
\* APT-style fetch does
CustomGetNotFoundIsNoOp(j) ==
    /\ j \in Running("get")
    /\ Provider(j).Custom
    /\ network' = TRUE
    /\ LET url == CustomUrl(Provider(j), Dist(j), Comp(j))
           requested == [jobs[j] EXCEPT !.reqs = Append(@, url)]
       IN \/ SetJob(j, Returned(requested, Error("download", j)))
          \/ \E status \in NonSuccess :
                SetJob(j, Returned([requested EXCEPT !.resps = Append(@, status)], Nil))
          \/ SetJob(j, [requested EXCEPT !.resps = Append(@, StatusOK), !.pc = "read"])
    /\ UNCHANGED <<input, pc, ret, providers, operations, k, next, errors, closed,
                   wg, i, fs>>

\* DownloadFile, lines 393-411, called by pullCustomRepository (line 177) with
\* followRedirects = false
CustomGet(j) ==
    /\ j \in Running("get")
    /\ Provider(j).Custom
    /\ network' = TRUE
    /\ LET url == CustomUrl(Provider(j), Dist(j), Comp(j))
           requested == [jobs[j] EXCEPT !.reqs = Append(@, url)]
       IN \/ SetJob(j, Returned(requested, Error("download", j)))
          \/ \E status \in NonSuccess :
                SetJob(j, Returned([requested EXCEPT !.resps = Append(@, status)],
                                   Error("download", j)))
          \/ SetJob(j, [requested EXCEPT !.resps = Append(@, StatusOK), !.pc = "read"])
    /\ UNCHANGED <<input, pc, ret, providers, operations, k, next, errors, closed,
                   wg, i, fs>>

\* DownloadFile, lines 413-422, called with compress = true: read the body,
\* hand it to writeFile
CustomRead(j) ==
    /\ j \in Running("read")
    /\ Provider(j).Custom
    /\ LET url == CustomUrl(Provider(j), Dist(j), Comp(j))
       IN \/ SetJob(j, Returned(jobs[j], Error("read", j)))
          \/ \E body \in Bodies :
                SetJob(j, [jobs[j] EXCEPT !.pc = "create", !.definition = [body |-> body],
                             !.plan = writeFilePlan(CustomFilePath(Directory(j), Dist(j), url),
                                                    body, TRUE)])
    /\ UNCHANGED <<input, pc, ret, providers, operations, k, next, errors, closed,
                   wg, i, fs, network>>

\* the file system after os.Create(path) succeeded: the file is there, empty
Created(files, path) ==
    [q \in DOMAIN files \cup {path} |-> IF q = path THEN << >> ELSE files[q]]

\* writeFile, lines 376-384: os.MkdirAll and os.Create; a failure of either
\* leaves the file as it was, Create truncates
FileCreate(j) ==
    /\ j \in Running("create")
    /\ \/ /\ SetJob(j, Returned(jobs[j], Error("open", j)))
          /\ fs' = fs
       \/ /\ SetJob(j, [jobs[j] EXCEPT !.pc = "write"])
          /\ fs' = Created(fs, jobs[j].plan.fullPath)
    /\ UNCHANGED <<input, pc, ret, providers, operations, k, next, errors, closed,
                   wg, i, network>>

\* what file.Write(fileData) leaves in the file when n blocks went through
Written(fileData, n) == SubSeq(fileData, 1, n)

\* writeFile, lines 386-389: file.Write writes all of fileData, or fails after
\* a part of it
FileWrite(j) ==
    /\ j \in Running("write")
    /\ LET plan == jobs[j].plan
       IN \E n \in 0..Len(plan.fileData) :
            /\ fs' = [fs EXCEPT ![plan.fullPath] = Written(plan.fileData, n)]
            /\ SetJob(j, Returned(jobs[j], IF n < Len(plan.fileData)
                                           THEN Error("write", j)
                                           ELSE Nil))
    /\ UNCHANGED <<input, pc, ret, providers, operations, k, next, errors, closed,
                   wg, i, network>>

\* lines 256, 258: the send on the buffered channel
Send(j) ==
    /\ j \in Running("send")
    /\ Len(errors) < operations
    /\ errors' = Append(errors, jobs[j].err)
    /\ jobs' = [jobs EXCEPT ![j] = [NewJob EXCEPT !.pc = "done"]]
    /\ UNCHANGED <<input, pc, ret, providers, operations, k, next, closed, wg, i,
                   fs, network, failed>>

\* line 252: the deferred wg.Done()
Done(j) ==
    /\ j \in Running("done")
    /\ wg' = wg - 1
    /\ jobs' = [jobs EXCEPT ![j] = [NewJob EXCEPT !.pc = "end"]]
    /\ UNCHANGED <<input, pc, ret, providers, operations, k, next, errors, closed, i,
                   fs, network, failed>>

Next ==
    \/ Resolve
    \/ NextProvider
    \/ Launch
    \/ WaitClose
    \/ Drain
    \/ \E j \in DOMAIN jobs : AptGet(j)
    \/ \E j \in DOMAIN jobs : AptRead(j)
    \/ \E j \in DOMAIN jobs : CustomGet(j)
    \/ \E j \in DOMAIN jobs : CustomRead(j)
    \/ \E j \in DOMAIN jobs : FileCreate(j)
    \/ \E j \in DOMAIN jobs : FileWrite(j)
    \/ \E j \in DOMAIN jobs : Send(j)
    \/ \E j \in DOMAIN jobs : Done(j)

Spec == Init /\ [][Next]_vars

SpecResolve == InitResolve /\ [][Next]_vars

\* ------------------------------------------------------- FairSpec: progress
\* SyncRepositories itself, and goroutine j
Orchestrator == Resolve \/ NextProvider \/ Launch \/ WaitClose \/ Drain
Goroutine(j) ==
    /\ j \in DOMAIN jobs
    /\ \/ AptGet(j) \/ AptRead(j) \/ CustomGet(j) \/ CustomRead(j)
       \/ FileCreate(j) \/ FileWrite(j) \/ Send(j) \/ Done(j)

\* every goroutine a manifest of Spec can start
JobIds ==
    UNION {{<<x, d, c>> : d \in 1..Len(l.Providers[x].Distributions),
                          c \in 1..Len(l.Providers[x].Components)} :
           <<l, x>> \in {<<l, x>> \in Manifests \X (1..MaxProviders) :
                             x <= Len(l.Providers)}}

\* Spec with the Go scheduler's guarantee that SyncRepositories and every
\* goroutine keep running while they can take a step, and with every HTTP
\* request, read and write returning
FairSpec ==
    /\ Init
    /\ [][Next]_vars
    /\ WF_vars(Orchestrator)
    /\ \A j \in JobIds : WF_vars(Goroutine(j))

\* ------------------------------------------------- SpecPaths: output paths
\* distribution and component names as real suites have them, with and
\* without a '/': "stable", "stable/updates", "main", "updates/main"
PathDists == {<<"stable">>, <<"stable", "updates">>}
PathComps == {<<"main">>, <<"updates", "main">>}

\* the sequences of pairwise distinct elements of S
DistinctSeqs(S) ==
    {q \in SeqsUpTo(S, Cardinality(S)) : \A x, y \in 1..Len(q) : q[x] = q[y] => x = y}

\* manifests of one provider, APT-style or custom, whose distribution names
\* are pairwise distinct and whose component names are pairwise distinct
PathManifests ==
    {[Providers |-> <<PackageListsProvider("debian", custom, dists, comps)>>] :
        custom \in BOOLEAN, dists \in DistinctSeqs(PathDists),
        comps \in DistinctSeqs(PathComps)}

InitPaths ==
    /\ lists \in PathManifests
    /\ packages_file = << >>
    /\ providerNames = << >>
    /\ fs0 = PreviousFiles(lists)
    /\ fs = fs0
    /\ InitRun

\* goroutine j up to its call of writeFile, for a fetch that succeeded: the
\* path and the bytes pullAptRepository (lines 158-165, an index with one
\* record) or DownloadFile (lines 421-422) hands to writeFile
PlanSnapshot(j) ==
    /\ j \in Running("get")
    /\ jobs' = [jobs EXCEPT ![j] =
                  IF Provider(j).Custom
                  THEN [@ EXCEPT !.pc = "create",
                          !.plan = writeFilePlan(
                                      CustomFilePath(Directory(j), Dist(j),
                                                     CustomUrl(Provider(j), Dist(j), Comp(j))),
                                      "raw", TRUE)]
                  ELSE [@ EXCEPT !.pc = "create",
                          !.plan = writeFilePlan(
                                      AptFilePath(Directory(j), Dist(j), Comp(j)),
                                      Marshal([Xdeb |-> <<Package(Provider(j).Url, 1)>>]),
                                      TRUE)]]
    /\ UNCHANGED <<input, pc, ret, providers, operations, k, next, errors, closed,
                   wg, i, fs, network, failed>>

\* the orchestrator up to wg.Wait(), the goroutines up to writeFile
NextPaths ==
    \/ Resolve
    \/ NextProvider
    \/ Launch
    \/ \E j \in DOMAIN jobs : PlanSnapshot(j)

SpecPaths == InitPaths /\ [][NextPaths]_vars

\* ---------------------------------------------- SpecParse: the index parser
\* one APT-style provider with one job, and every index text of up to
\* MaxChunks pieces
InitParse ==
    /\ lists = [Providers |-> <<ResolveProvider("debian")>>]
    /\ packages_file \in Texts
    /\ providerNames = << >>
    /\ fs0 = PreviousFiles(lists)
    /\ fs = fs0
    /\ InitRun

\* goroutine j from a 200 response with a plain final path to the end of
\* pullPackagesFile and the branch of pullAptRepository: the body read is
\* packages_file (lines 139-143), parsePackagesFile parses it (line 145); a
\* panic ends the goroutine (and the program)
ReadIndex(j) ==
    /\ j \in Running("get")
    /\ ~Provider(j).Custom
    /\ LET definition == parsePackagesFile(Provider(j).Url, packages_file)
       IN IF definition = Panic
          THEN SetJob(j, [jobs[j] EXCEPT !.pc = "panic"])
          ELSE SetJob(j, AfterPull(j, jobs[j], definition))
    /\ UNCHANGED <<input, pc, ret, providers, operations, k, next, errors, closed,
                   wg, i, fs, network>>

\* the orchestrator up to wg.Wait(), the goroutine up to writeFile
NextParse ==
    \/ Resolve
    \/ NextProvider
    \/ Launch
    \/ \E j \in DOMAIN jobs : ReadIndex(j)

SpecParse == InitParse /\ [][NextParse]_vars

\* ------------------------------------------------------------------ claims
Names(ps) == {ps[x].Name : x \in 1..Len(ps)}
UniqueNames(ps) == \A x, y \in 1..Len(ps) : ps[x].Name = ps[y].Name => x = y
Resolved == pc # "resolve" /\ (ret = None \/ ret = Nil \/ "job" \in DOMAIN ret)
\* the position in the manifest of a provider
PositionIn(ps, p) == CHOOSE x \in 1..Len(ps) : ps[x] = p

\* C1: for a manifest with unique provider names and a non-empty filter whose
\* names all occur in it, the providers selected for dispatch are exactly the
\* manifest's providers named by the filter, each once, in manifest order;
\* with an empty filter they are all the manifest's providers, in order; and
\* every goroutine started belongs to a selected provider.
C1_SelectedProviders ==
    LET M == lists.Providers
        F == providerNames
    IN (/\ pc # "resolve"
        /\ UniqueNames(M)
        /\ \A x \in 1..Len(F) : F[x] \in Names(M))
       => /\ Resolved
          /\ F = << >> => providers = M
          /\ F # << >> =>
               /\ \A x \in 1..Len(providers) :
                     /\ providers[x].Name \in {F[y] : y \in 1..Len(F)}
                     /\ \E m \in 1..Len(M) : M[m] = providers[x]
               /\ \A m \in 1..Len(M) :
                     M[m].Name \in {F[y] : y \in 1..Len(F)}
                        => Cardinality({x \in 1..Len(providers) : providers[x] = M[m]}) = 1
               /\ \A x, y \in 1..Len(providers) :
                     x < y => PositionIn(M, providers[x]) < PositionIn(M, providers[y])
          /\ \A j \in DOMAIN jobs : j[1] \in 1..Len(providers)

\* a finished run that selected both providers of a manifest, in manifest
\* order, for a filter naming them in reverse order
C1_Witness ==
    /\ pc = "returned"
    /\ ret = Nil
    /\ UniqueNames(lists.Providers)
    /\ Len(lists.Providers) = 2
    /\ providerNames = <<lists.Providers[2].Name, lists.Providers[1].Name>>
    /\ providers = lists.Providers
    /\ jobs # << >>

\* C2: a filter holding a name the manifest lacks makes SyncRepositories return
\* an error that names the first such name in request order and lists the
\* manifest's provider names; in that run no goroutine is started, no HTTP
\* request is issued and no file is touched.
C2_UnknownProvider ==
    LET M == lists.Providers
        F == providerNames
        unknown == {x \in 1..Len(F) : F[x] \notin Names(M)}
    IN unknown # {}
       => /\ jobs = << >>
          /\ ~network
          /\ fs = fs0
          /\ pc \in {"resolve", "returned"}
          /\ pc = "returned" =>
               /\ ret.kind = "unsupported"
               /\ \E x \in unknown :
                     /\ \A y \in unknown : x <= y
                     /\ ret.name = F[x]
               /\ Len(ret.valid) = Len(M)
               /\ \A m \in 1..Len(M) : ret.valid[m] = M[m].Name

\* a run that returned for a filter of two different unknown names, over a
\* manifest with providers
C2_Witness ==
    /\ pc = "returned"
    /\ Len(providerNames) = 2
    /\ providerNames[1] \in UnknownNames
    /\ providerNames[2] \in UnknownNames
    /\ providerNames[1] # providerNames[2]
    /\ Len(lists.Providers) = 2
\* the goroutines provider x of the selection is to start
JobsOf(x) ==
    {<<x, d, c>> : d \in 1..Len(providers[x].Distributions),
                   c \in 1..Len(providers[x].Components)}
NJobs(x) == Cardinality(JobsOf(x))
IsJobError(e) == "job" \in DOMAIN e
Unread == {errors[x] : x \in 1..Len(errors)} \ {Nil}

\* C3: once a job of provider x returned an error, no job of a later provider
\* is ever started, the orchestrator never moves past provider x, and
\* SyncRepositories returns nothing but an error.
C3_FailFast ==
    \A j \in failed :
        /\ \A j2 \in DOMAIN jobs : j2[1] <= j[1]
        /\ k = j[1]
        /\ ret # Nil
        /\ pc = "returned" => IsJobError(ret)

\* a run that returned an error after one of the two jobs of a provider
\* failed, with a later provider that has jobs left out
C3_Witness ==
    /\ pc = "returned"
    /\ Cardinality(failed) = 1
    /\ k < Len(providers)
    /\ NJobs(k) = 2
    /\ NJobs(k + 1) > 0
    /\ IsJobError(ret)

AllJobsSucceeded ==
    /\ failed = {}
    /\ \A x \in 1..Len(providers) : \A j \in JobsOf(x) :
          j \in DOMAIN jobs /\ jobs[j].pc = "end"

FileAt(files, path) == IF path \in DOMAIN files THEN files[path] ELSE <<"no file">>
C5_NotFoundIsNoOp ==
    \A j \in DOMAIN jobs :
        (/\ ~Provider(j).Custom
         /\ jobs[j].pc = "send"
         /\ Len(jobs[j].resps) = 3
         /\ \A x \in 1..3 : jobs[j].resps[x] \in NonSuccess)
        => /\ jobs[j].err = Nil
           /\ j \notin failed
           /\ jobs[j].plan = Nil
           /\ LET path == Root \o <<Provider(j).Name>> \o Dist(j)
                              \o <<Last(Comp(j)) \o ".yaml.zst">>
              IN FileAt(fs, path) = FileAt(fs0, path)

\* an APT-style job about to send its result after three non-success
\* statuses, for a snapshot that no previous run left
C5_Witness ==
    \E j \in DOMAIN jobs :
        /\ ~Provider(j).Custom
        /\ jobs[j].pc = "send"
        /\ jobs[j].resps = <<404, 404, 404>>
        /\ Dist(j) = <<"testing">>

\* C6: an APT-style job hands a snapshot to writeFile if and only if its fetch
\* succeeded with at least one entry, and what it hands over is the
\* compressed YAML of the entries at <root>/<provider>/<dist>/<comp>.yaml.zst;
\* a job whose fetch gave zero entries returns no error and leaves the file
\* as it was before the run.
C6_PersistsIffEntries ==
    \A j \in DOMAIN jobs :
        LET job == jobs[j]
            path == Root \o <<Provider(j).Name>> \o Dist(j)
                         \o <<Last(Comp(j)) \o ".yaml.zst">>
        IN ~Provider(j).Custom =>
            /\ job.plan # Nil =>
                 /\ job.definition # Nil
                 /\ Len(job.definition.Xdeb) >= 1
                 /\ job.plan.fullPath = path
                 /\ job.plan.fileData = <<"zstd", [xdeb |-> job.definition.Xdeb]>>
            /\ (job.definition # Nil /\ Len(job.definition.Xdeb) >= 1) =>
                 /\ job.plan # Nil
                 /\ job.pc \in {"create", "write", "send"}
                 /\ (job.pc = "send" /\ job.err = Nil) => fs[path] = job.plan.fileData
            /\ (job.definition # Nil /\ Len(job.definition.Xdeb) = 0) =>
                 /\ job.pc = "send"
                 /\ job.err = Nil
                 /\ FileAt(fs, path) = FileAt(fs0, path)
            /\ job.plan = Nil /\ job.pc \in {"get", "read", "send"} =>
                 FileAt(fs, path) = FileAt(fs0, path)

\* an APT-style job that fetched an index without entries and is about to
\* send nil, the snapshot of a previous run still in place
C6_Witness ==
    \E j \in DOMAIN jobs :
        /\ ~Provider(j).Custom
        /\ jobs[j].pc = "send"
        /\ jobs[j].definition # Nil
        /\ Len(jobs[j].definition.Xdeb) = 0
        /\ Dist(j) = <<"stable">>
        /\ fs = fs0

\* the complete contents a sync run can give a snapshot file
Complete(content) == Len(content) = 2 /\ content[1] = "zstd"

\* the snapshot paths of the manifest's APT-style providers
AptSnapshots ==
    UNION {{Root \o <<lists.Providers[x].Name>> \o lists.Providers[x].Distributions[d]
                 \o <<Last(lists.Providers[x].Components[c]) \o ".yaml.zst">> :
               d \in 1..Len(lists.Providers[x].Distributions),
               c \in 1..Len(lists.Providers[x].Components)} :
           x \in {y \in 1..Len(lists.Providers) : ~lists.Providers[y].Custom}}

\* C7: outside of the moment a job is between os.Create and file.Write on it,
\* every APT-style snapshot file holds the complete content of the previous
\* run or a complete new content, never an empty or partial one.
C7_NeverPartial ==
    \A path \in AptSnapshots \cap DOMAIN fs :
        (\A j \in DOMAIN jobs : jobs[j].pc = "write" => jobs[j].plan.fullPath # path)
        => \/ path \in DOMAIN fs0 /\ fs[path] = fs0[path]
           \/ Complete(fs[path])

\* C8 as stated: a custom job that succeeded has stored the body it
\* downloaded, as it is, at <root>/<provider>/<distribution>/<remote-filename>.
C8_CustomStoredRaw ==
    \A j \in DOMAIN jobs :
        (/\ Provider(j).Custom
         /\ jobs[j].pc = "send"
         /\ jobs[j].err = Nil)
        => LET path == Root \o <<Provider(j).Name>> \o Dist(j) \o <<Last(Comp(j))>>
           IN /\ path \in DOMAIN fs
              /\ fs[path] = jobs[j].definition.body

\* C8 as the code has it: a custom job that succeeded has stored the
\* zstd-compressed body at <root>/<provider>/<distribution>/<remote-filename>.zst
\* and nothing at the path without the suffix.
C8_CustomStoredCompressed ==
    \A j \in DOMAIN jobs :
        (/\ Provider(j).Custom
         /\ jobs[j].pc = "send"
         /\ jobs[j].err = Nil)
        => LET path == Root \o <<Provider(j).Name>> \o Dist(j) \o <<Last(Comp(j))>>
               zst == Root \o <<Provider(j).Name>> \o Dist(j) \o <<Last(Comp(j)) \o ".zst">>
           IN /\ path \notin DOMAIN fs
              /\ zst \in DOMAIN fs
              /\ fs[zst] = <<"zstd", jobs[j].definition.body>>
              /\ fs[zst] # jobs[j].definition.body

\* a custom job that wrote its file and is about to send nil
C8_Witness ==
    \E j \in DOMAIN jobs :
        /\ Provider(j).Custom
        /\ jobs[j].pc = "send"
        /\ jobs[j].err = Nil
        /\ jobs[j].plan # Nil

C10_NoCancellation ==
    /\ pc = "returned" => \A j \in DOMAIN jobs : jobs[j].pc = "end"
    /\ (closed \/ pc = "drain") =>
          /\ wg = 0
          /\ \A j \in DOMAIN jobs : jobs[j].pc = "end"
    /\ pc = "drain" =>
          /\ JobsOf(k) \subseteq DOMAIN jobs
          /\ i = 0 => Len(errors) = NJobs(k)

\* the orchestrator about to read the results of two jobs, the first an
\* error: the other job ran on and sent its result after it
C10_Witness ==
    /\ pc = "drain"
    /\ i = 0
    /\ Len(errors) = 2
    /\ errors[1] # Nil
    /\ errors[2] = Nil

\* the goroutines of provider x started so far, and those still running
StartedOf(x) == {j \in DOMAIN jobs : j[1] = x}
InFlight == {j \in DOMAIN jobs : jobs[j].pc # "end"}
\* the pairs the launch loops of lines 247-262 have passed when they are at n
Before(x, n) == {j \in JobsOf(x) : j[2] < n[1] \/ (j[2] = n[1] /\ j[3] < n[2])}

\* C11: providers are processed one after the other, in the order of the
\* selection: every goroutine still running belongs to the provider being
\* processed; a goroutine of a provider exists only when every goroutine of
\* every earlier provider has ended without error and the drain loop of the
\* earlier provider ran to its end; and the launch loops start one goroutine
\* per (distribution, component) pair, in order, all of them before wg.Wait().
C11_SequentialProviders ==
    /\ \A j \in InFlight : j[1] = k
    /\ \A j \in DOMAIN jobs : \A x \in 1..(j[1] - 1) :
          /\ StartedOf(x) = JobsOf(x)
          /\ \A j2 \in JobsOf(x) : jobs[j2].pc = "end" /\ j2 \notin failed
    /\ (pc = "provider" /\ k > 1) => i = operations /\ errors = << >> /\ failed = {}
    /\ pc = "launch" =>
          /\ StartedOf(k) = Before(k, next)
          /\ wg = Cardinality(StartedOf(k) \cap InFlight)
    /\ pc \in {"wait", "drain"} =>
          /\ StartedOf(k) = JobsOf(k)
          /\ wg = Cardinality(StartedOf(k) \cap InFlight)

\* the second provider's first goroutine is running, both goroutines of the
\* first provider have ended, and the launch loops are still at work
C11_Witness ==
    /\ pc = "launch"
    /\ k = 2
    /\ NJobs(1) = 2
    /\ \A j \in JobsOf(1) : jobs[j].pc = "end"
    /\ NJobs(2) = 2
    /\ Cardinality(StartedOf(2)) = 1
    /\ InFlight = StartedOf(2)

\* C12: the channel of the provider being processed, made with capacity
\* operations (line 244), never holds more results than its capacity; the
\* capacity is at least the number of (distribution, component) pairs of the
\* provider; and every goroutine that is at its send can send at once, while
\* the orchestrator reads nothing before every goroutine has finished.
C12_SendNeverBlocks ==
    /\ Len(errors) <= operations
    /\ pc \in {"launch", "wait", "drain"} =>
          /\ operations >= Len(providers[k].Distributions) * Len(providers[k].Components)
          /\ operations >= NJobs(k)
    /\ \A j \in Running("send") :
          /\ Len(errors) < operations
          /\ ENABLED Send(j)
    /\ pc \in {"launch", "wait"} =>
          Len(errors) = Cardinality({j \in StartedOf(k) : jobs[j].pc \in {"done", "end"}})

\* a goroutine at its send while the result of the other goroutine of the
\* provider is queued and the orchestrator waits
C12_Witness ==
    /\ pc = "wait"
    /\ Len(errors) = 1
    /\ NJobs(k) = 2
    /\ Running("send") # {}

\* the URL of the plain index of goroutine j, as line 79 formats it, and the
\* same with a suffix on its last segment
PlainIndex(j) ==
    Provider(j).Url \o <<"dists">> \o Dist(j) \o Comp(j)
                    \o <<"binary-" \o Provider(j).Architecture, "Packages">>
Suffixed(url, suffix) == SubSeq(url, 1, Len(url) - 1) \o <<Last(url) \o suffix>>

\* C13: an APT-style goroutine requests at most three URLs, the plain index,
\* then the same with .xz, then with .gz, in this order; a request is made
\* only when every earlier one got a non-success status; and the response
\* it reads is that of its last request, the first with a success status.
C13_FallbackOrder ==
    \A j \in DOMAIN jobs : ~Provider(j).Custom =>
        LET job == jobs[j]
            n == Len(job.reqs)
        IN /\ n <= 3
           /\ n >= 1 => job.reqs[1] = PlainIndex(j)
           /\ n >= 2 => job.reqs[2] = Suffixed(PlainIndex(j), ".xz")
           /\ n >= 3 => job.reqs[3] = Suffixed(PlainIndex(j), ".gz")
           /\ Len(job.resps) <= n
           /\ \A x \in 1..(n - 1) : x <= Len(job.resps) /\ job.resps[x] \in NonSuccess
           /\ job.pc = "get" => n < 3 /\ Len(job.resps) = n
           /\ job.pc = "read" =>
                 /\ n >= 1
                 /\ Len(job.resps) = n
                 /\ job.resps[n] = StatusOK
           /\ \A x \in 1..Len(job.resps) : job.resps[x] = StatusOK => job.pc = "read"

\* a goroutine about to read the response of its second request, the .xz
\* candidate, after the plain one got a non-success status
C13_Witness ==
    \E j \in DOMAIN jobs :
        /\ ~Provider(j).Custom
        /\ jobs[j].pc = "read"
        /\ Len(jobs[j].reqs) = 2
        /\ jobs[j].resps = <<404, StatusOK>>

\* the snapshot file of APT-style goroutine j
AptSnapshot(j) ==
    Root \o <<Provider(j).Name>> \o Dist(j) \o <<Last(Comp(j)) \o ".yaml.zst">>
\* the results that reached the orchestrator: queued, or returned
Reported == Unread \cup (IF IsJobError(ret) THEN {ret} ELSE {})

\* C14: an APT-style goroutine whose request failed (a request without a
\* response) at any of the three stages returns the transport error right
\* after that request, having handed nothing to writeFile; its snapshot file
\* stays as it was before the run; its error is queued for the orchestrator
\* or returned by it; and SyncRepositories never returns nil in that run.
C14_TransportErrorIsFatal ==
    /\ \A j \in DOMAIN jobs : ~Provider(j).Custom =>
          LET job == jobs[j]
          IN Len(job.reqs) > Len(job.resps) =>
               /\ job.pc = "send"
               /\ job.err = [kind |-> "transport", job |-> j]
               /\ Len(job.reqs) = Len(job.resps) + 1
               /\ job.plan = Nil /\ job.definition = Nil
               /\ j \in failed
               /\ FileAt(fs, AptSnapshot(j)) = FileAt(fs0, AptSnapshot(j))
    /\ \A e \in Reported : e.kind = "transport" =>
          /\ e.job \in failed
          /\ jobs[e.job].pc \in {"done", "end"}
          /\ FileAt(fs, AptSnapshot(e.job)) = FileAt(fs0, AptSnapshot(e.job))
    /\ \A j \in failed :
          /\ jobs[j].pc \in {"send", "done", "end"}
          /\ jobs[j].pc # "send" => \E e \in Reported : e.job = j
          /\ ret # Nil
          /\ pc = "returned" => IsJobError(ret)

\* SyncRepositories returned the transport error of a goroutine whose
\* snapshot file a previous run had left
C14_Witness ==
    /\ pc = "returned"
    /\ IsJobError(ret)
    /\ ret.kind = "transport"
    /\ Dist(ret.job) = <<"stable">>
    /\ AptSnapshot(ret.job) \in DOMAIN fs

\* C15: for a provider whose distribution names are pairwise distinct and
\* whose component names are pairwise distinct, names with a '/' included,
\* no two goroutines are about to write the same file: the paths they hand to
\* os.Create differ.
C15_DisjointPaths ==
    \A j1, j2 \in DOMAIN jobs :
        (/\ j1 # j2
         /\ jobs[j1].plan # Nil
         /\ jobs[j2].plan # Nil)
        => jobs[j1].plan.fullPath # jobs[j2].plan.fullPath

\* the records of the served index that parsePackagesFile makes entries of,
\* the lines of record r that start with "<key>:", and what follows the
\* first ": " of a line
Records ==
    SelectSeq(Split(packages_file, <<"\n", "\n">>), LAMBDA r : Len(r) # 0)
LinesWith(r, key) ==
    {line \in {Split(r, <<"\n">>)[x] : x \in 1..Len(Split(r, <<"\n">>))} :
        HasPrefix(line, <<key, ":">>)}
AfterFirstSeparator(line) ==
    SubSeq(line, Index(line, <<":", " ">>) + 2, Len(line))

\* C16: in every entry parsePackagesFile returns, the name, version and
\* sha256 are everything that follows the first ": " of a "Package:",
\* "Version:" and "SHA256:" line of the record, later ": " included, and
\* the url is the prefix, "/", and everything that follows the first ": "
\* of a "Filename:" line.
C16_ValueAfterFirstSeparator ==
    \A j \in DOMAIN jobs : jobs[j].definition # Nil =>
        LET Xdeb == jobs[j].definition.Xdeb
        IN \A x \in 1..Len(Xdeb) :
              /\ LinesWith(Records[x], "Package") # {} =>
                    Xdeb[x].Name \in {AfterFirstSeparator(line) :
                                         line \in LinesWith(Records[x], "Package")}
              /\ LinesWith(Records[x], "Version") # {} =>
                    Xdeb[x].Version \in {AfterFirstSeparator(line) :
                                            line \in LinesWith(Records[x], "Version")}
              /\ LinesWith(Records[x], "SHA256") # {} =>
                    Xdeb[x].Sha256 \in {AfterFirstSeparator(line) :
                                           line \in LinesWith(Records[x], "SHA256")}
              /\ LinesWith(Records[x], "Filename") # {} =>
                    Xdeb[x].Url \in {Provider(j).Url \o <<"/">> \o AfterFirstSeparator(line) :
                                        line \in LinesWith(Records[x], "Filename")}

\* the records of the served index that hold more than line breaks
Blank(r) == \A x \in 1..Len(r) : r[x] = "\n"
NonEmptyRecords ==
    SelectSeq(Split(packages_file, <<"\n", "\n">>), LAMBDA r : ~Blank(r))

\* C17: parsePackagesFile returns one entry per record of the index that is
\* not empty, in the order of the index: what trailing line breaks leave
\* after the last record makes no entry, and a field no line of the record
\* gives is empty in its entry.
C17_OneEntryPerRecord ==
    \A j \in DOMAIN jobs : jobs[j].definition # Nil =>
        LET Xdeb == jobs[j].definition.Xdeb
        IN /\ Len(Xdeb) = Len(NonEmptyRecords)
           /\ \A x \in 1..Len(Xdeb) :
                 /\ Xdeb[x].Name = << >> <=> LinesWith(NonEmptyRecords[x], "Package") = {}
                 /\ Xdeb[x].Version = << >> <=> LinesWith(NonEmptyRecords[x], "Version") = {}
                 /\ Xdeb[x].Url = << >> <=> LinesWith(NonEmptyRecords[x], "Filename") = {}
                 /\ Xdeb[x].Sha256 = << >> <=> LinesWith(NonEmptyRecords[x], "SHA256") = {}
           /\ jobs[j].err = Nil

\* C18: the reader an APT-style goroutine decodes a success response with
\* follows from the suffix of the final request path alone: xz for ".xz",
\* gzip for ".gz", the body as it is for any other path, whichever of the
\* three candidates was requested, and each candidate can end at each path.
C18_ReaderOfFinalPath ==
    /\ \A j \in DOMAIN jobs : (~Provider(j).Custom /\ jobs[j].pc = "read") =>
          /\ jobs[j].final = ".xz" => jobs[j].reader = "xz"
          /\ jobs[j].final = ".gz" => jobs[j].reader = "gzip"
          /\ jobs[j].final \notin {".xz", ".gz"} => jobs[j].reader = "plain"
    /\ \A j \in DOMAIN jobs : jobs[j].pc # "read" => jobs[j].reader = ""
    /\ \A j \in DOMAIN jobs : (~Provider(j).Custom /\ jobs[j].pc = "get") =>
          \A final \in {"", ".xz", ".gz"} :
             ENABLED (/\ AptGet(j)
                      /\ jobs'[j].pc = "read"
                      /\ jobs'[j].final = final)

\* a goroutine whose first request, for the plain index, ended at a path
\* with .xz and is to be decoded with the xz reader, and another whose
\* third request, for the .gz candidate, ended at a plain path
C18_Witness ==
    \E j1, j2 \in DOMAIN jobs :
        /\ jobs[j1].pc = "read"
        /\ Len(jobs[j1].reqs) = 1
        /\ Last(Last(jobs[j1].reqs)) = "Packages"
        /\ jobs[j1].final = ".xz"
        /\ jobs[j1].reader = "xz"
        /\ jobs[j2].pc = "read"
        /\ Len(jobs[j2].reqs) = 3
        /\ Last(Last(jobs[j2].reqs)) = "Packages.gz"
        /\ jobs[j2].final = ""
        /\ jobs[j2].reader = "plain"

\* C19: every run of SyncRepositories returns, when every goroutine keeps
\* running and every fetch returns: no goroutine waits at its send, wg.Wait()
\* comes back, and a read of the drain loop never waits: past the provider's
\* own results it finds the channel closed and empty and receives nil.
C19_Terminates ==
    /\ [](\A j \in Running("send") : ENABLED Send(j))
    /\ [](pc = "wait" => (wg = 0 \/ InFlight # {}))
    /\ [](pc = "drain" =>
            /\ closed
            /\ ENABLED Drain
            /\ i >= NJobs(k) => (errors = << >> /\ Recv = Nil))
    /\ <>(pc = "returned")

\* the drain loop of a provider without goroutines, on the second of the two
\* reads the run's operation count asks for: the channel is closed and empty
C19_Witness ==
    /\ pc = "drain"
    /\ k = 2
    /\ NJobs(1) = 2
    /\ NJobs(2) = 0
    /\ operations = 2
    /\ i = 1
    /\ errors = << >>

\* the snapshot file of custom goroutine j
CustomSnapshot(j) ==
    Root \o <<Provider(j).Name>> \o Dist(j) \o <<Last(Comp(j)) \o ".zst">>

\* C20: a custom goroutine whose one request got a status other than 200
\* returns an error, having handed nothing to writeFile, and its file stays
\* as it was before the run; once a custom goroutine returned an error,
\* no goroutine of a later provider is ever started and SyncRepositories
\* never returns nil.
C20_CustomNotFoundFails ==
    /\ \A j \in DOMAIN jobs :
          (/\ Provider(j).Custom
           /\ jobs[j].resps # << >>
           /\ Last(jobs[j].resps) # StatusOK)
          => /\ jobs[j].pc = "send"
             /\ Len(jobs[j].reqs) = 1
             /\ jobs[j].err # Nil
             /\ IsJobError(jobs[j].err) /\ jobs[j].err.job = j
             /\ j \in failed
             /\ jobs[j].plan = Nil
             /\ FileAt(fs, CustomSnapshot(j)) = FileAt(fs0, CustomSnapshot(j))
    /\ \A j \in failed : Provider(j).Custom =>
          /\ \A j2 \in DOMAIN jobs : j2[1] <= j[1]
          /\ k = j[1]
          /\ ret # Nil
          /\ pc = "returned" => IsJobError(ret) /\ ret.job[1] = j[1]
          /\ jobs[j].pc \in {"done", "end"} =>
                /\ \E e \in Reported : e.job = j
                /\ jobs[j].resps = << >>

\* a custom goroutine, of the first of two providers with goroutines, about
\* to send the error of a 404, the file of a previous run in place
C20_Witness ==
    \E j \in DOMAIN jobs :
        /\ Provider(j).Custom
        /\ jobs[j].pc = "send"
        /\ jobs[j].resps = <<404>>
        /\ jobs[j].err.kind = "download"
        /\ j[1] = 1
        /\ Len(providers) = 2
        /\ NJobs(2) > 0
        /\ CustomSnapshot(j) \in DOMAIN fs0

====
